---------------------------- MODULE Spec2Model ----------------------------
(***************************************************************************)
(* The data-cleansing pipeline of BusinessDashboard.py: the script reads   *)
(* /Financials.csv into company_df, strips the column labels, cleans the   *)
(* eight designated numeric columns (textual cleanup, then to_numeric),    *)
(* clamps negative values to zero, recomputes missing Profit values as     *)
(* Sales - COGS, detects outliers with the IQR rule and caps them at the   *)
(* fences.  The script is one straight line of statements; pc is the next  *)
(* stage to run.                                                           *)
(*                                                                         *)
(* A cell is a record [kind, num, txt]: kind "nan" is a missing value,     *)
(* kind "num" a number whose value is num / den (den is the common         *)
(* denominator of the whole table: 1 until the capping stage, which        *)
(* produces multiples of 1/8), kind "str" a text, kept as the sequence of  *)
(* its characters.  Numbers are exact: the script's floats are taken as    *)
(* the rationals they stand for.  Only the designated numeric columns are  *)
(* modelled; Year, Month Number, Date and the categorical columns do not   *)
(* take part in any of the stages below.                                   *)
(***************************************************************************)
EXTENDS Integers, Sequences, FiniteSets, TLC

VARIABLES csv, df, den, pc, notfound, corrected, outliers, fence

vars == <<csv, df, den, pc, notfound, corrected, outliers, fence>>

(***************************************************************************)
(* Bounds of the model.                                                    *)
(***************************************************************************)
MaxRows == 2

MaxFieldLen == 4

MaxFieldVal == 2

MaxTextLen == 3

(***************************************************************************)
(* Cells.                                                                  *)
(***************************************************************************)
NaN == [kind |-> "nan", num |-> 0, txt |-> <<>>]

Num(n) == [kind |-> "num", num |-> n, txt |-> <<>>]

Str(t) == [kind |-> "str", num |-> 0, txt |-> t]

isna(cell) == cell.kind = "nan"

numeric_columns ==
    {"Units Sold", "Manufacturing Price", "Sale Price", "Gross Sales",
     "Discounts", "Sales", "COGS", "Profit"}

\* A column label: <<padded, name>>; padded means the label carries leading
\* or trailing blanks in the file's header line.
Label(padded, name) == <<padded, name>>

HasColumn(d, column) == Label(FALSE, column) \in DOMAIN d

Col(d, column) == d[Label(FALSE, column)]

(***************************************************************************)
(* Texts.                                                                  *)
(***************************************************************************)
DigitChar == <<"0", "1", "2", "3", "4", "5", "6", "7", "8", "9">>

IsDigit(ch) == \E d \in 1..10 : DigitChar[d] = ch

DigitVal(ch) == (CHOOSE d \in 1..10 : DigitChar[d] = ch) - 1

IsDigits(t) == Len(t) > 0 /\ \A i \in 1..Len(t) : IsDigit(t[i])

RECURSIVE DigitsValue(_)
DigitsValue(t) ==
    IF t = <<>> THEN 0
    ELSE 10 * DigitsValue(SubSeq(t, 1, Len(t) - 1)) + DigitVal(t[Len(t)])

\* What the numeric parser accepts: an optional minus sign and digits.
IsNumeral(t) ==
    \/ IsDigits(t)
    \/ Len(t) > 1 /\ t[1] = "-" /\ IsDigits(Tail(t))

NumeralValue(t) ==
    IF t[1] = "-" THEN 0 - DigitsValue(Tail(t)) ELSE DigitsValue(t)

\* re.sub(ch, '', t) for a one-character pattern.
DeleteChar(t, ch) == SelectSeq(t, LAMBDA x : x # ch)

\* re.search(sub, t) for a literal pattern.
Contains(t, sub) ==
    \E i \in 1..(Len(t) - Len(sub) + 1) : SubSeq(t, i, i + Len(sub) - 1) = sub

TokNA == <<"N", "/", "A">>

TokNone == <<"N", "o", "n", "e">>

TokDashes == <<"-", "-", "-">>

(***************************************************************************)
(* pd.read_csv: a column all of whose cells are numerals or NA tokens is  *)
(* read as a numeric column, any other column as an object column of      *)
(* texts; the default NA tokens (among them '', N/A and None) are read as *)
(* NaN in both.                                                            *)
(***************************************************************************)
IsNaToken(t) == t = <<>> \/ t = TokNA \/ t = TokNone

InfersNumeric(col) ==
    \A i \in 1..Len(col) : IsNaToken(col[i].txt) \/ IsNumeral(col[i].txt)

read_cell(cell, numeric) ==
    IF IsNaToken(cell.txt) THEN NaN
    ELSE IF numeric THEN Num(NumeralValue(cell.txt))
    ELSE cell

read_csv(file) ==
    [l \in DOMAIN file |->
        [i \in 1..Len(file[l]) |-> read_cell(file[l][i], InfersNumeric(file[l]))]]

(***************************************************************************)
(* Step 2, lines 31-40: the replace with the regex dictionary, applied in *)
(* the dictionary's order to the text cells of a column (a numeric cell   *)
(* or a NaN is not a text and is left alone), then pd.to_numeric with     *)
(* errors='coerce'.                                                        *)
(***************************************************************************)
\* replace_tokens without the '-': '' entry of the dictionary.
replace_tokens_keeps_hyphen(cell) ==
    IF cell.kind # "str" THEN cell
    ELSE LET t == DeleteChar(DeleteChar(cell.txt, "$"), ",")
         IN  IF \/ t = <<>>
                \/ Contains(t, TokNA)
                \/ Contains(t, TokNone)
                \/ Contains(t, TokDashes)
             THEN NaN
             ELSE Str(t)

replace_tokens(cell) ==
    IF cell.kind # "str" THEN cell
    ELSE LET t == DeleteChar(DeleteChar(DeleteChar(cell.txt, "$"), ","), "-")
         IN  IF \/ t = <<>>
                \/ Contains(t, TokNA)
                \/ Contains(t, TokNone)
                \/ Contains(t, TokDashes)
             THEN NaN
             ELSE Str(t)

to_numeric(cell) ==
    IF cell.kind # "str" THEN cell
    ELSE IF IsNumeral(cell.txt) THEN Num(NumeralValue(cell.txt))
    ELSE NaN

clean_column(col) ==
    [i \in 1..Len(col) |-> to_numeric(replace_tokens(col[i]))]

(***************************************************************************)
(* Step 3, lines 44-50: max(x, 0) returns x unless 0 > x, so a NaN (for   *)
(* which every comparison is false) stays a NaN.                           *)
(***************************************************************************)
IsNegative(cell) == cell.kind = "num" /\ cell.num < 0

\* max(0, x) in place of max(x, 0): a NaN becomes 0.
max_zero_swapped(cell) ==
    IF cell.kind = "num" /\ cell.num > 0 THEN cell ELSE Num(0)

max_zero(cell) == IF cell.kind = "num" /\ 0 > cell.num THEN Num(0) ELSE cell

clamp_column(col) ==
    IF \E i \in 1..Len(col) : IsNegative(col[i])
    THEN [i \in 1..Len(col) |-> max_zero(col[i])]
    ELSE col

(***************************************************************************)
(* Lines 53-56: Profit of a row, recomputed where it is NaN.               *)
(***************************************************************************)
minus(a, b) == IF isna(a) \/ isna(b) THEN NaN ELSE Num(a.num - b.num)

\* The lambda with its test inverted.
recalc_profit_inverted(sales, cogs, profit) ==
    IF ~isna(profit) THEN minus(sales, cogs) ELSE profit

recalc_profit(sales, cogs, profit) ==
    IF isna(profit) THEN minus(sales, cogs) ELSE profit

\* The lambda reads row['Profit'] in every row and row['Sales'], row['COGS']
\* only in a row whose Profit is NaN: a missing column it reads is a
\* KeyError.
RecalcRaises(d) ==
    IF ~HasColumn(d, "Profit") THEN TRUE
    ELSE /\ \E i \in 1..Len(Col(d, "Profit")) : isna(Col(d, "Profit")[i])
         /\ ~(HasColumn(d, "Sales") /\ HasColumn(d, "COGS"))

(***************************************************************************)
(* Step 4, lines 63-85: Series.quantile skips NaN and interpolates        *)
(* linearly between the order statistics.  With n values and h = k(n-1),  *)
(* the k-th quartile is s[h/4] + (h mod 4)/4 * (s[h/4 + 1] - s[h/4])      *)
(* (0-based); quartile4 is four times that.  The fences are kept in units *)
(* of 1/8 of the column's unit: 8*lower = 2*(4 Q1) - 3*(4 IQR).           *)
(***************************************************************************)
Values(col) ==
    LET present == SelectSeq(col, LAMBDA c : c.kind = "num")
    IN  SortSeq([i \in 1..Len(present) |-> present[i].num],
                LAMBDA a, b : a < b)

\* quantile with interpolation='lower'.
quartile4_lower(col, k) ==
    LET s == Values(col)
    IN  4 * s[((k * (Len(s) - 1)) \div 4) + 1]

quartile4(col, k) ==
    LET s == Values(col)
        h == k * (Len(s) - 1)
        j == h \div 4
        r == h % 4
    IN  IF r = 0 THEN 4 * s[j + 1]
        ELSE (4 - r) * s[j + 1] + r * s[j + 2]

NoFence == [nan |-> TRUE, lower |-> 0, upper |-> 0]

iqr_bounds(col) ==
    IF Values(col) = <<>> THEN NoFence
    ELSE LET Q1 == quartile4(col, 1)
             Q3 == quartile4(col, 3)
             IQR == Q3 - Q1
         IN  [nan |-> FALSE, lower |-> 2 * Q1 - 3 * IQR,
              upper |-> 2 * Q3 + 3 * IQR]

\* Line 71: the rows outside the fences.
outlier_rows(col) ==
    LET b == iqr_bounds(col)
    IN  {i \in 1..Len(col) :
            /\ col[i].kind = "num"
            /\ ~b.nan
            /\ 8 * col[i].num < b.lower \/ 8 * col[i].num > b.upper}

\* Lines 84-85 on one cell; the result is in units of 1/8.
where_lower(cell, b) ==
    IF cell.kind # "num" THEN cell
    ELSE IF ~b.nan /\ 8 * cell.num < b.lower THEN Num(b.lower)
    ELSE Num(8 * cell.num)

\* Line 85 capping one eighth above the fence.
where_upper_off(cell, b) ==
    IF cell.kind = "num" /\ ~b.nan /\ cell.num > b.upper
    THEN Num(b.upper + 1)
    ELSE cell

\* Line 85 left out.
where_upper_keeps(cell, b) == cell

where_upper(cell, b) ==
    IF cell.kind = "num" /\ ~b.nan /\ cell.num > b.upper
    THEN Num(b.upper)
    ELSE cell

\* The outlier rows removed instead of capped.
cap_column_drops(col) ==
    LET b == iqr_bounds(col)
        kept == SelectSeq(col, LAMBDA c :
                    c.kind # "num" \/ b.nan
                      \/ (b.lower <= 8 * c.num /\ 8 * c.num <= b.upper))
    IN  [i \in 1..Len(kept) |-> where_lower(kept[i], b)]

cap_column(col) ==
    LET b == iqr_bounds(col)
    IN  [i \in 1..Len(col) |-> where_upper(where_lower(col[i], b), b)]

(***************************************************************************)
(* The stages.                                                             *)
(***************************************************************************)
Present(d) == {c \in numeric_columns : HasColumn(d, c)}

\* Line 10.
ReadCsv ==
    /\ pc = "read"
    /\ df' = read_csv(csv)
    /\ pc' = "normalize"
    /\ UNCHANGED <<csv, den, notfound, corrected, outliers, fence>>

\* Line 14: columns.str.strip().  Lines 18-24 touch Year, Month Number and
\* Date only.
strip_columns(d) ==
    [l \in {Label(FALSE, k[2]) : k \in DOMAIN d} |->
        d[CHOOSE k \in DOMAIN d : k[2] = l[2]]]

Normalize ==
    /\ pc = "normalize"
    /\ df' = strip_columns(df)
    /\ pc' = "coerce"
    /\ UNCHANGED <<csv, den, notfound, corrected, outliers, fence>>

\* Lines 31-40: both loops skip a column that is not in the frame.
clean_numeric_columns(d) ==
    [l \in DOMAIN d |->
        IF l[2] \in Present(d) THEN clean_column(d[l]) ELSE d[l]]

CleanNumericColumns ==
    /\ pc = "coerce"
    /\ df' = clean_numeric_columns(df)
    /\ pc' = "validate"
    /\ UNCHANGED <<csv, den, notfound, corrected, outliers, fence>>

\* Lines 44-50: the two print statements are the sets corrected and
\* notfound.
clamp_columns(d) ==
    [l \in DOMAIN d |->
        IF l[2] \in Present(d) THEN clamp_column(d[l]) ELSE d[l]]

Validate ==
    /\ pc = "validate"
    /\ corrected' =
          {c \in Present(df) :
              \E i \in 1..Len(Col(df, c)) : IsNegative(Col(df, c)[i])}
    /\ notfound' = numeric_columns \ Present(df)
    /\ df' = clamp_columns(df)
    /\ pc' = "reconcile"
    /\ UNCHANGED <<csv, den, outliers, fence>>

\* Lines 53-56.
\* Profit recomputed in every row that has Sales and COGS.
recalc_profit_column_all(d) ==
    [i \in 1..Len(Col(d, "Profit")) |->
        IF HasColumn(d, "Sales") /\ HasColumn(d, "COGS")
        THEN minus(Col(d, "Sales")[i], Col(d, "COGS")[i])
        ELSE Col(d, "Profit")[i]]

recalc_profit_column(d) ==
    [i \in 1..Len(Col(d, "Profit")) |->
        IF isna(Col(d, "Profit")[i])
        THEN recalc_profit(Col(d, "Sales")[i], Col(d, "COGS")[i],
                           Col(d, "Profit")[i])
        ELSE Col(d, "Profit")[i]]

RecalcProfit ==
    /\ pc = "reconcile"
    /\ ~RecalcRaises(df)
    /\ df' = [df EXCEPT ![Label(FALSE, "Profit")] = recalc_profit_column(df)]
    /\ pc' = "detect"
    /\ UNCHANGED <<csv, den, notfound, corrected, outliers, fence>>

RecalcProfitKeyError ==
    /\ pc = "reconcile"
    /\ RecalcRaises(df)
    /\ pc' = "KeyError"
    /\ UNCHANGED <<csv, df, den, notfound, corrected, outliers, fence>>

\* Lines 63-75: detect_outliers indexes every designated column, present or
\* not.
DetectRaises(d) == Present(d) # numeric_columns

DetectOutliers ==
    /\ pc = "detect"
    /\ ~DetectRaises(df)
    /\ outliers' = [c \in numeric_columns |-> outlier_rows(Col(df, c))]
    /\ pc' = "cap"
    /\ UNCHANGED <<csv, df, den, notfound, corrected, fence>>

DetectOutliersKeyError ==
    /\ pc = "detect"
    /\ DetectRaises(df)
    /\ pc' = "KeyError"
    /\ UNCHANGED <<csv, df, den, notfound, corrected, outliers, fence>>

\* Lines 78-85.  The loop is reached only when detect_outliers has found
\* every designated column.
cap_columns(d) ==
    [l \in DOMAIN d |-> IF l[2] \in numeric_columns THEN cap_column(d[l]) ELSE d[l]]

Bounder ==
    /\ fence' = [c \in numeric_columns |-> iqr_bounds(Col(df, c))]
    /\ df' = cap_columns(df)
    /\ den' = 8 * den
    /\ UNCHANGED <<csv, notfound, corrected, outliers>>

CapOutliers ==
    /\ pc = "cap"
    /\ Bounder
    /\ pc' = "done"

\* The capping loop run once more on the table it has produced.
Rebound ==
    /\ pc = "done"
    /\ Bounder
    /\ pc' = "rebounded"

(***************************************************************************)
(* The files the script is run on.  A small file has at most MaxRows rows *)
(* whose cells are empty, "-1" or "$1"; at most one designated column is  *)
(* absent from its header, and its labels are all padded with blanks or   *)
(* all bare.  The five columns that the Profit recalculation does not     *)
(* read hold the content of Sales.  A uniform file holds the same field   *)
(* of numerals in every designated column: at most MaxFieldLen cells,     *)
(* each empty or a number in 0..MaxFieldVal, or the field 10, 12, 11, 13, *)
(* 1000.                                                                   *)
(***************************************************************************)
RawCells == {Str(<<>>), Str(<<"-", "1">>), Str(<<"$", "1">>)}

AbsentChoices == {{}} \cup {{c} : c \in numeric_columns}

FileOf(padded, absent, content) ==
    [l \in {Label(padded, k) : k \in numeric_columns \ absent} |-> content[l[2]]]

SmallFile(padded, absent, s, g, p) ==
    FileOf(padded, absent,
           [c \in numeric_columns |->
               CASE c = "COGS" -> g
                 [] c = "Profit" -> p
                 [] OTHER -> s])

RECURSIVE NumeralOf(_)
NumeralOf(n) ==
    IF n < 10 THEN <<DigitChar[n + 1]>>
    ELSE NumeralOf(n \div 10) \o <<DigitChar[(n % 10) + 1]>>

ExampleField == <<Num(10), Num(12), Num(11), Num(13), Num(1000)>>

Fields ==
    UNION {[1..n -> {NaN} \cup {Num(v) : v \in 0..MaxFieldVal}] : n \in 1..MaxFieldLen}
      \cup {ExampleField}

UniformFile(f) ==
    FileOf(FALSE, {},
           [c \in numeric_columns |->
               [i \in 1..Len(f) |->
                   IF isna(f[i]) THEN Str(<<>>) ELSE Str(NumeralOf(f[i].num))]])

NoOutliers == [c \in numeric_columns |-> {}]

NoFences == [c \in numeric_columns |-> NoFence]

Init ==
    /\ \/ \E n \in 1..MaxRows, absent \in AbsentChoices, padded \in BOOLEAN :
            \E s, g, p \in [1..n -> RawCells] :
               csv = SmallFile(padded, absent, s, g, p)
       \/ \E f \in Fields : csv = UniformFile(f)
    /\ df = <<>>
    /\ den = 1
    /\ pc = "read"
    /\ notfound = {}
    /\ corrected = {}
    /\ outliers = NoOutliers
    /\ fence = NoFences

Next ==
    \/ ReadCsv
    \/ Normalize
    \/ CleanNumericColumns
    \/ Validate
    \/ RecalcProfit
    \/ RecalcProfitKeyError
    \/ DetectOutliers
    \/ DetectOutliersKeyError
    \/ CapOutliers

Spec == Init /\ [][Next]_vars

(***************************************************************************)
(* The Outlier Bounder on one field, run twice: the script has run on a   *)
(* uniform file up to the detection pass (the stages before it leave a    *)
(* table of numbers >= 0 as it was read).                                  *)
(***************************************************************************)
InitBound ==
    /\ \E f \in Fields : csv = UniformFile(f)
    /\ df = read_csv(csv)
    /\ den = 1
    /\ pc = "detect"
    /\ notfound = {}
    /\ corrected = {}
    /\ outliers = NoOutliers
    /\ fence = NoFences

NextBound ==
    \/ DetectOutliers
    \/ CapOutliers
    \/ Rebound

SpecBound == InitBound /\ [][NextBound]_vars

(***************************************************************************)
(* The Numeric Coercer on one text: every designated column holds one     *)
(* text cell, the same in all, of at most MaxTextLen characters.           *)
(***************************************************************************)
Alphabet == {"$", ",", "-", "5", "0", "N", "/", "A"}

Text1200 == <<"$", "1", ",", "2", "0", "0">>

Texts ==
    UNION {[1..n -> Alphabet] : n \in 0..MaxTextLen} \cup {TokNone, Text1200}

InitCoerce ==
    /\ \E t \in Texts :
         csv = FileOf(FALSE, {}, [c \in numeric_columns |-> <<Str(t)>>])
    /\ df = csv
    /\ den = 1
    /\ pc = "coerce"
    /\ notfound = {}
    /\ corrected = {}
    /\ outliers = NoOutliers
    /\ fence = NoFences

NextCoerce == CleanNumericColumns

SpecCoerce == InitCoerce /\ [][NextCoerce]_vars

(***************************************************************************)
(* Helpers of the properties.                                              *)
(***************************************************************************)
NonNegativeOrMissing(cell) == isna(cell) \/ (cell.kind = "num" /\ cell.num >= 0)

Rows(col) == 1..Len(col)

\* The column of the file that the frame's column l was read from.
FileColumn(l) == csv[CHOOSE k \in DOMAIN csv : k[2] = l[2]]

\* A cell carried over unchanged by the capping loop: the same number, now
\* in units of 1/8.
Rescaled(cell) == IF cell.kind = "num" THEN Num(8 * cell.num) ELSE cell

\* The k-th smallest (k = 0, 1, ...) of the non-missing numbers of a column,
\* by counting.
Numbers(col) == {i \in Rows(col) : col[i].kind = "num"}

OrderStatistic(col, k) ==
    CHOOSE x \in {col[i].num : i \in Numbers(col)} :
        /\ Cardinality({i \in Numbers(col) : col[i].num < x}) <= k
        /\ Cardinality({i \in Numbers(col) : col[i].num <= x}) > k

\* Four times the q-th quartile (q = 1, 3) by linear interpolation between
\* order statistics.
Quartile4(col, q) ==
    LET n == Cardinality(Numbers(col))
        h == q * (n - 1)
        lo == OrderStatistic(col, h \div 4)
        hi == OrderStatistic(col, IF h % 4 = 0 THEN h \div 4 ELSE (h \div 4) + 1)
    IN  (4 - (h % 4)) * lo + (h % 4) * hi

\* Eight times Q1 - 1.5 IQR and eight times Q3 + 1.5 IQR.
Lower8(col) == 2 * Quartile4(col, 1) - 3 * (Quartile4(col, 3) - Quartile4(col, 1))

Upper8(col) == 2 * Quartile4(col, 3) + 3 * (Quartile4(col, 3) - Quartile4(col, 1))

Capped(col, i) ==
    IF col[i].kind # "num" THEN col[i]
    ELSE IF 8 * col[i].num < Lower8(col) THEN Num(Lower8(col))
    ELSE IF 8 * col[i].num > Upper8(col) THEN Num(Upper8(col))
    ELSE Num(8 * col[i].num)

CapStep == pc = "cap" /\ pc' = "done"

(***************************************************************************)
(* C1.  At the end of the pipeline every value of every designated        *)
(* numeric field is missing or a number >= 0, Profit values filled in by  *)
(* the recalculation included.                                             *)
(***************************************************************************)
C1_FinalValuesNonNegative ==
    pc = "done" =>
        \A l \in DOMAIN df : \A i \in Rows(df[l]) : NonNegativeOrMissing(df[l][i])

(***************************************************************************)
(* C2.  A designated numeric field that is absent from the header is      *)
(* reported, and the pipeline does not fail on it: no stage raises.       *)
(***************************************************************************)
C2_AbsentFieldIsSkipped ==
    /\ pc \in {"reconcile", "detect", "cap", "done", "KeyError"} =>
           notfound = numeric_columns \ Present(df)
    /\ pc # "KeyError"

(***************************************************************************)
(* C3.  Original statement: running the capping loop a second time, with  *)
(* the fences recomputed from the capped values, changes no value.         *)
(***************************************************************************)
ReboundStep == pc = "done" /\ pc' = "rebounded"

C3_SecondPassChangesNothing ==
    [][ReboundStep =>
          \A l \in DOMAIN df : \A i \in Rows(df[l]) : df'[l][i] = Rescaled(df[l][i])]_vars

(***************************************************************************)
(* C3, amended.  A second run of the capping loop changes no value of a   *)
(* field whose recomputed fences equal the fences of the first run, which *)
(* is the case of every field whose number n of non-missing values has    *)
(* n - 1 divisible by 4 (both quartiles are then order statistics).       *)
(***************************************************************************)
SameFences(c) ==
    LET b == iqr_bounds(Col(df, c))
    IN  /\ b.nan = fence[c].nan
        /\ b.lower = 8 * fence[c].lower
        /\ b.upper = 8 * fence[c].upper

QuartilesAreOrderStatistics(col) == (Cardinality(Numbers(col)) - 1) % 4 = 0

C3_SecondPassWithSameFences ==
    [][ReboundStep =>
          \A c \in numeric_columns :
             /\ QuartilesAreOrderStatistics(Col(df, c)) => SameFences(c)
             /\ SameFences(c) =>
                   \A i \in Rows(Col(df, c)) :
                      Col(df', c)[i] = Rescaled(Col(df, c)[i])]_vars

\* The field 10, 12, 11, 13, 1000 after two runs: 1000 was capped to 16 by
\* the first and nothing moved in the second (the unit is 1/64).
C3_Witness ==
    /\ pc = "rebounded"
    /\ outliers["Sales"] = {5}
    /\ Col(df, "Sales") = <<Num(640), Num(768), Num(704), Num(832), Num(1024)>>

(***************************************************************************)
(* C4.  Original statement: after the capping stage every value is        *)
(* missing or within the fences computed from the final, capped contents  *)
(* of its field.                                                           *)
(***************************************************************************)
C4_WithinFinalFences ==
    pc = "done" =>
        \A c \in numeric_columns : \A i \in Rows(Col(df, c)) :
            \/ isna(Col(df, c)[i])
            \/ /\ Lower8(Col(df, c)) <= 8 * Col(df, c)[i].num
               /\ 8 * Col(df, c)[i].num <= Upper8(Col(df, c))

(***************************************************************************)
(* C4, amended.  After the capping stage every value is missing or within *)
(* the fences computed from the contents its field had just before the    *)
(* capping stage.                                                          *)
(***************************************************************************)
C4_WithinPreCappingFences ==
    [][CapStep =>
          \A c \in numeric_columns : \A i \in Rows(Col(df', c)) :
             \/ isna(Col(df', c)[i])
             \/ /\ Lower8(Col(df, c)) <= Col(df', c)[i].num
                /\ Col(df', c)[i].num <= Upper8(Col(df, c))]_vars

\* A value was capped at the upper fence, and the fence recomputed from the
\* capped field lies below it.
C4_Witness ==
    /\ pc = "done"
    /\ \E c \in numeric_columns : \E i \in outliers[c] :
          /\ Col(df, c)[i].num = fence[c].upper
          /\ 8 * Col(df, c)[i].num > Upper8(Col(df, c))

(***************************************************************************)
(* C5.  The negative-clamping stage leaves every value of every present   *)
(* designated field missing or >= 0, keeps a missing value missing, and   *)
(* leaves a field without negative values unchanged.                       *)
(***************************************************************************)
C5_NonNegativeAfterClamping ==
    [][pc = "validate" =>
          \A l \in DOMAIN df' : \A i \in Rows(df'[l]) :
             /\ NonNegativeOrMissing(df'[l][i])
             /\ isna(df[l][i]) => isna(df'[l][i])
             /\ (\A j \in Rows(df[l]) : NonNegativeOrMissing(df[l][j]))
                   => df'[l] = df[l]]_vars

\* A field was corrected: its negative value is now 0 and the missing value
\* beside it is still missing.
C5_Witness ==
    /\ pc = "reconcile"
    /\ \E c \in corrected : \E i, j \in Rows(Col(df, c)) :
          /\ FileColumn(Label(FALSE, c))[i].txt = <<"-", "1">>
          /\ Col(df, c)[i] = Num(0)
          /\ isna(Col(df, c)[j])

(***************************************************************************)
(* C6.  In every row whose Sales and COGS are both present, Profit is     *)
(* present after the recalculation, and equals Sales - COGS when it was   *)
(* missing before; it is still present at the end of the pipeline.        *)
(***************************************************************************)
HasProfitInputs(d) ==
    HasColumn(d, "Sales") /\ HasColumn(d, "COGS") /\ HasColumn(d, "Profit")

ProfitTotal(d) ==
    HasProfitInputs(d) =>
        \A i \in Rows(Col(d, "Profit")) :
            (~isna(Col(d, "Sales")[i]) /\ ~isna(Col(d, "COGS")[i]))
                => ~isna(Col(d, "Profit")[i])

C6_ProfitTotality ==
    [][/\ pc' \in {"detect", "cap", "done"} => ProfitTotal(df')
       /\ (pc = "reconcile" /\ pc' = "detect" /\ HasProfitInputs(df)) =>
             \A i \in Rows(Col(df, "Profit")) :
                (/\ isna(Col(df, "Profit")[i])
                 /\ ~isna(Col(df, "Sales")[i])
                 /\ ~isna(Col(df, "COGS")[i]))
                    => Col(df', "Profit")[i] =
                          Num(Col(df, "Sales")[i].num - Col(df, "COGS")[i].num)]_vars

\* The file's Profit cell was empty and the final table has a Profit there.
C6_Witness ==
    /\ pc = "done"
    /\ \E i \in Rows(Col(df, "Profit")) :
          /\ FileColumn(Label(FALSE, "Profit"))[i].txt = <<>>
          /\ Col(df, "Profit")[i].kind = "num"

(***************************************************************************)
(* C7.  Every stage leaves the number of rows equal to the number of rows *)
(* of the file: no row is dropped or added, and outliers stay.            *)
(***************************************************************************)
C7_RowCountInvariance ==
    pc # "read" =>
        \A l \in DOMAIN df : Len(df[l]) = Len(FileColumn(l))

\* The pipeline has finished on a file with an outlier.
C7_Witness ==
    /\ pc = "done"
    /\ \E c \in numeric_columns : outliers[c] # {}

C9_CappingResult ==
    [][CapStep =>
          \A c \in numeric_columns :
             /\ \A i \in Rows(Col(df, c)) : Col(df', c)[i] = Capped(Col(df, c), i)
             /\ outliers[c] =
                   {i \in Rows(Col(df, c)) : Col(df', c)[i] # Rescaled(Col(df, c)[i])}
             /\ Col(df, c) = ExampleField =>
                   /\ fence'[c] = [nan |-> FALSE, lower |-> 64, upper |-> 128]
                   /\ Col(df', c) = <<Num(80), Num(96), Num(88), Num(104), Num(128)>>]_vars

\* The example field after capping, its fifth row detected.
C9_Witness ==
    /\ pc = "done"
    /\ outliers["Profit"] = {5}
    /\ fence["Profit"].upper = 128
    /\ Col(df, "Profit")[5] = Num(128)

(***************************************************************************)
(* C10.  The Profit recalculation changes only Profit cells that were     *)
(* missing: a present Profit is kept even when it differs from            *)
(* Sales - COGS, a row whose Sales or COGS is missing keeps Profit        *)
(* missing, and no other field is modified.                                *)
(***************************************************************************)
C10_ReconcilerFrame ==
    [][pc = "reconcile" =>
          /\ DOMAIN df' = DOMAIN df
          /\ \A l \in DOMAIN df : l[2] # "Profit" => df'[l] = df[l]
          /\ HasColumn(df, "Profit") =>
                \A i \in Rows(Col(df, "Profit")) :
                   /\ ~isna(Col(df, "Profit")[i])
                         => Col(df', "Profit")[i] = Col(df, "Profit")[i]
                   /\ (/\ pc' = "detect"
                       /\ isna(Col(df, "Profit")[i])
                       /\ isna(Col(df, "Sales")[i]) \/ isna(Col(df, "COGS")[i]))
                         => isna(Col(df', "Profit")[i])]_vars

\* After the recalculation a row keeps a Profit that is not Sales - COGS
\* and another row keeps a missing Profit.
C10_Witness ==
    /\ pc = "detect"
    /\ HasProfitInputs(df)
    /\ \E i, j \in Rows(Col(df, "Profit")) :
          /\ Col(df, "Profit")[i].kind = "num"
          /\ Col(df, "Sales")[i].kind = "num"
          /\ Col(df, "COGS")[i].kind = "num"
          /\ Col(df, "Profit")[i].num # Col(df, "Sales")[i].num - Col(df, "COGS")[i].num
          /\ isna(Col(df, "Profit")[j])

=============================================================================
